---- MODULE Spec2Model ----
(***************************************************************************)
(* Model of the quicksort-learning backend (example/server):               *)
(*   app/utils/recommendation.py  calculate_skill_scores,                  *)
(*                                generate_recommendations                 *)
(*   app/routes/api.py            the JSON endpoints and get_or_create_user*)
(*   app/models.py                the three tables                         *)
(*                                                                         *)
(* Topic names are written in ASCII:                                       *)
(*   "divide_conquer"  = 分治思想     "pivot_selection" = 基准选择         *)
(*   "partition"       = 分区操作     "recursion"       = 递归调用         *)
(*   "complexity"      = 复杂度分析                                        *)
(* Tier tags: "proficient" = 掌握良好, "needs_reinforcement" = 需要加强,   *)
(*   "priority_focus" = 建议重点学习.                                      *)
(*                                                                         *)
(* A Python dict is modelled with its insertion order: a sequence of       *)
(* records [k |-> key, v |-> value] with distinct keys.                    *)
(***************************************************************************)
EXTENDS Integers, Sequences, FiniteSets, TLC

VARIABLES
    \* ---- scorer harness (calculate_skill_scores as a pure function)
    user_profile_dict,      \* the dict passed in; absent keys are absent from DOMAIN
    total_animation_steps,  \* the second argument
    sc_op,                  \* "input" before any call, then the call that was made
    sc_topic,               \* topic argument of the call ("" if none)
    sc_line,                \* line argument of the call (0 if none)
    scores,                 \* result for user_profile_dict / total_animation_steps
    profile2,               \* the varied dict of the call
    total2,                 \* the varied total of the call
    scores2,                \* result for profile2 / total2
    \* ---- recommender harness (generate_recommendations as a pure function)
    skill_scores,           \* the scores dict passed in, items in insertion order
    top_n,                  \* the second argument
    rc_op,                  \* "input" before the call, "called" after it
    recommendations,        \* the list returned
    \* ---- the web application: the database and the requests in progress
    user_profile,           \* table user_profile: its rows, row j has id j
    learning_record,        \* table learning_record
    chat_history,           \* table chat_history
    req                     \* the requests: where each is, its body, the object it loaded

scorerVars == <<user_profile_dict, total_animation_steps, sc_op, sc_topic, sc_line,
                scores, profile2, total2, scores2>>

recVars == <<skill_scores, top_n, rc_op, recommendations>>

apiVars == <<user_profile, learning_record, chat_history, req>>

vars == <<scorerVars, recVars, apiVars>>

-----------------------------------------------------------------------------
\* Bounds of the model
MaxMarks == 2       \* longest marked_lines list drawn
MaxTopics == 2      \* longest question_topics list drawn
MaxSteps == 2       \* largest total_steps_viewed drawn
MaxTotal == 2       \* largest total_animation_steps drawn
MaxRuns == 3        \* largest completed_runs drawn
MaxItems == 3       \* most items of a scores dict drawn
MaxTopN == 4        \* largest top_n drawn
MaxRequests == 2    \* requests served

-----------------------------------------------------------------------------
\* Python helpers
Min(a, b) == IF a < b THEN a ELSE b
Max(a, b) == IF a > b THEN a ELSE b

Range(s) == {s[i] : i \in 1..Len(s)}

\* list.count(x)
RECURSIVE Count(_, _)
Count(s, x) ==
    IF s = <<>> THEN 0
    ELSE (IF Head(s) = x THEN 1 ELSE 0) + Count(Tail(s), x)

\* dict.get(k, default)
Get(d, k, default) == IF k \in DOMAIN d THEN d[k] ELSE default

\* round(n / m) for m >= 1: Python 3 rounds a half to the even neighbour.
\* (For the quotients below 30.5, the only ones min(30, .) lets through, the
\* float computation (v / m) * 30 rounds as the exact quotient 30v / m does.)
Round(n, m) ==
    LET q == n \div m
        r == n % m
    IN  IF 2 * r < m THEN q
        ELSE IF 2 * r > m THEN q + 1
        ELSE IF q % 2 = 0 THEN q ELSE q + 1

BoundedSeq(S, n) == UNION {[1..k -> S] : k \in 0..n}

-----------------------------------------------------------------------------
\* recommendation.py: the static tables

\* the key order of KNOWLEDGE_MAP
KnowledgeOrder ==
    <<"divide_conquer", "pivot_selection", "partition", "recursion", "complexity">>

Topics == Range(KnowledgeOrder)

KNOWLEDGE_MAP ==
    [k \in Topics |->
        CASE k = "divide_conquer"  -> <<1, 2, 7, 8>>
          [] k = "pivot_selection" -> <<11, 12, 20, 21>>
          [] k = "partition"       -> <<4, 10, 13, 14, 15, 16, 17, 18, 19, 22>>
          [] k = "recursion"       -> <<3, 5, 6>>
          [] k = "complexity"      -> <<>>]

-----------------------------------------------------------------------------
\* recommendation.py: calculate_skill_scores

base_score(d) == IF Get(d, "total_steps_viewed", 0) > 0 THEN 10 ELSE 0

\* mutant: a non-positive total falls back to the default 50 instead of 1
step_bonus_default50(d, total) ==
    Min(30, Round(Get(d, "total_steps_viewed", 0) * 30,
                  IF total <= 0 THEN 50 ELSE total))

step_bonus(d, total) ==
    Min(30, Round(Get(d, "total_steps_viewed", 0) * 30, Max(total, 1)))

\* mutant: the completion bonus without its cap
complete_bonus_uncapped(d) == Get(d, "completed_runs", 0) * 15

complete_bonus(d) == Min(30, Get(d, "completed_runs", 0) * 15)

\* mutant: the question bonus is 10
question_bonus_10(d, knowledge) ==
    IF knowledge \in Range(Get(d, "question_topics", <<>>)) THEN 10 ELSE 0

question_bonus(d, knowledge) ==
    IF knowledge \in Range(Get(d, "question_topics", <<>>)) THEN 15 ELSE 0

\* mutant: the marks counted as a set
marked_count_distinct(marked_lines, lines) ==
    Cardinality(Range(marked_lines) \cap Range(lines))

\* sum(1 for ln in marked_lines if ln in lines)
RECURSIVE marked_count(_, _)
marked_count(marked_lines, lines) ==
    IF marked_lines = <<>> THEN 0
    ELSE (IF Head(marked_lines) \in Range(lines) THEN 1 ELSE 0)
         + marked_count(Tail(marked_lines), lines)

complexity_bonus(d, knowledge) ==
    IF knowledge = "complexity"
    THEN Count(Get(d, "question_topics", <<>>), "complexity") * 10
    ELSE 0

\* the loop body's score before the clamp of line 122
RawScore(d, total, knowledge) ==
    base_score(d) + step_bonus(d, total) + complete_bonus(d)
    + question_bonus(d, knowledge)
    - marked_count(Get(d, "marked_lines", <<>>), KNOWLEDGE_MAP[knowledge]) * 10
    + complexity_bonus(d, knowledge)

\* mutant: the clamp without its upper end
ClampBelowOnly(score) == Max(0, score)

Clamp(score) == Max(0, Min(100, score))

\* the dict returned: one item per KNOWLEDGE_MAP key, in KNOWLEDGE_MAP order
calculate_skill_scores(d, total) ==
    [i \in 1..Len(KnowledgeOrder) |->
        [k |-> KnowledgeOrder[i], v |-> Clamp(RawScore(d, total, KnowledgeOrder[i]))]]

\* dict lookups on an ordered dict
Keys(dict) == {dict[i].k : i \in 1..Len(dict)}
Lookup(dict, key) == (CHOOSE i \in 1..Len(dict) : dict[i].k = key)

-----------------------------------------------------------------------------
\* recommendation.py: generate_recommendations

KNOWLEDGE_GRAPH_RESOURCES ==
    [k \in Topics |->
        CASE k = "divide_conquer"  ->
                [next |-> "merge_sort", difficulty |-> "medium", tip |-> "tip_divide_conquer"]
          [] k = "pivot_selection" ->
                [next |-> "randomized_quicksort", difficulty |-> "medium", tip |-> "tip_pivot_selection"]
          [] k = "partition"       ->
                [next |-> "hoare_partition", difficulty |-> "hard", tip |-> "tip_partition"]
          [] k = "recursion"       ->
                [next |-> "tail_recursion", difficulty |-> "hard", tip |-> "tip_recursion"]
          [] k = "complexity"      ->
                [next |-> "master_theorem", difficulty |-> "hard", tip |-> "tip_complexity"]]

\* the advice texts, named by their topic
ADVICE_MAP ==
    [k \in Topics |->
        CASE k = "divide_conquer"  -> "advice_divide_conquer"
          [] k = "pivot_selection" -> "advice_pivot_selection"
          [] k = "partition"       -> "advice_partition"
          [] k = "recursion"       -> "advice_recursion"
          [] k = "complexity"      -> "advice_complexity"]

\* mutant: an item goes before the items of its own score (the sort not stable)
RECURSIVE InsertByScoreBeforeEqual(_, _)
InsertByScoreBeforeEqual(sorted, item) ==
    IF sorted = <<>> THEN <<item>>
    ELSE IF Head(sorted).v < item.v
         THEN <<Head(sorted)>> \o InsertByScoreBeforeEqual(Tail(sorted), item)
         ELSE <<item>> \o sorted

\* sorted(.., key=lambda x: x[1]) is stable: an item goes after every item of a
\* lower or equal score that came before it
RECURSIVE InsertByScore(_, _)
InsertByScore(sorted, item) ==
    IF sorted = <<>> THEN <<item>>
    ELSE IF Head(sorted).v <= item.v
         THEN <<Head(sorted)>> \o InsertByScore(Tail(sorted), item)
         ELSE <<item>> \o sorted

RECURSIVE SortedByScore(_)
SortedByScore(items) ==
    IF items = <<>> THEN <<>>
    ELSE InsertByScore(SortedByScore(SubSeq(items, 1, Len(items) - 1)), items[Len(items)])

\* the slice s[:n]: a negative n counts from the end
SliceTo(s, n) ==
    IF n >= 0 THEN SubSeq(s, 1, Min(n, Len(s)))
    ELSE SubSeq(s, 1, Max(0, Len(s) + n))

\* mutant: a score of exactly 70 is not yet proficient
TierAbove70(score) ==
    IF score > 70 THEN [tag |-> "proficient", tag_class |-> "easy"]
    ELSE IF score >= 40 THEN [tag |-> "needs_reinforcement", tag_class |-> "medium"]
    ELSE [tag |-> "priority_focus", tag_class |-> "hard"]

\* tag and tag_class of a score
Tier(score) ==
    IF score >= 70 THEN [tag |-> "proficient", tag_class |-> "easy"]
    ELSE IF score >= 40 THEN [tag |-> "needs_reinforcement", tag_class |-> "medium"]
    ELSE [tag |-> "priority_focus", tag_class |-> "hard"]

\* one record of the list; the next_* keys only for a name of the resources table
Recommendation(item) ==
    LET rec == [knowledge |-> item.k,
                score     |-> item.v,
                tag       |-> Tier(item.v).tag,
                tag_class |-> Tier(item.v).tag_class,
                advice    |-> IF item.k \in DOMAIN ADVICE_MAP THEN ADVICE_MAP[item.k] ELSE ""]
    IN  IF item.k \in DOMAIN KNOWLEDGE_GRAPH_RESOURCES
        THEN [knowledge       |-> rec.knowledge,
              score           |-> rec.score,
              tag             |-> rec.tag,
              tag_class       |-> rec.tag_class,
              advice          |-> rec.advice,
              next_topic      |-> KNOWLEDGE_GRAPH_RESOURCES[item.k].next,
              next_difficulty |-> KNOWLEDGE_GRAPH_RESOURCES[item.k].difficulty,
              next_tip        |-> KNOWLEDGE_GRAPH_RESOURCES[item.k].tip]
        ELSE rec

generate_recommendations(dict, n) ==
    LET first == SliceTo(SortedByScore(dict), n)
    IN  [i \in 1..Len(first) |-> Recommendation(first[i])]

\* top_n when the caller gives none
DefaultTopN == 5

-----------------------------------------------------------------------------
\* The recommender harness: Init draws a scores dict (its items in any order)
\* and a top_n; the actions call generate_recommendations on them.

\* keys drawn: three topics and a name that is in no table
RecNames == {"divide_conquer", "pivot_selection", "complexity", "other"}
\* scores drawn: the two tier borders and their lower neighbours
ScoreValues == {39, 40, 69, 70}

OrderedDicts ==
    {s \in BoundedSeq([k : RecNames, v : ScoreValues], MaxItems) :
        \A i, j \in 1..Len(s) : i # j => s[i].k # s[j].k}

RecIdle ==
    /\ skill_scores = <<>>
    /\ top_n = DefaultTopN
    /\ rc_op = "idle"
    /\ recommendations = <<>>

RecInit ==
    /\ skill_scores \in OrderedDicts
    /\ top_n \in -1..MaxTopN
    /\ rc_op = "input"
    /\ recommendations = <<>>

\* generate_recommendations(skill_scores, top_n)
Recommend ==
    /\ rc_op = "input"
    /\ rc_op' = "called"
    /\ recommendations' = generate_recommendations(skill_scores, top_n)
    /\ UNCHANGED <<skill_scores, top_n>>
    /\ UNCHANGED <<scorerVars, apiVars>>

\* generate_recommendations(skill_scores), as analyze calls it
RecommendDefault ==
    /\ rc_op = "input"
    /\ top_n # DefaultTopN
    /\ rc_op' = "called"
    /\ top_n' = DefaultTopN
    /\ recommendations' = generate_recommendations(skill_scores, DefaultTopN)
    /\ UNCHANGED skill_scores
    /\ UNCHANGED <<scorerVars, apiVars>>

RecNext == Recommend \/ RecommendDefault

-----------------------------------------------------------------------------
\* The scorer harness: Init draws a profile dict (any subset of its keys
\* present) and a total; each action calls calculate_skill_scores on it and
\* on one variation of it.

ProfileKeys == {"total_steps_viewed", "marked_lines", "question_topics", "completed_runs"}

\* line numbers drawn for marks: a line of divide_conquer and a line of no topic
MarkLines == {1, 99}
\* names drawn for question_topics: a topic with lines and the topic without
AskedNames == {"divide_conquer", "complexity"}

StepsDom == -1..MaxSteps
TotalDom == -1..MaxTotal
RunsDom == 0..MaxRuns

NoScores == <<>>

ScorerIdle ==
    /\ user_profile_dict = [x \in {} |-> 0]
    /\ total_animation_steps = 50
    /\ sc_op = "idle"
    /\ sc_topic = ""
    /\ sc_line = 0
    /\ scores = NoScores
    /\ profile2 = [x \in {} |-> 0]
    /\ total2 = 50
    /\ scores2 = NoScores

ScorerInit ==
    /\ \E present \in SUBSET ProfileKeys :
       \E sv \in (IF "total_steps_viewed" \in present THEN StepsDom ELSE {0}),
          ml \in (IF "marked_lines" \in present THEN BoundedSeq(MarkLines, MaxMarks) ELSE {<<>>}),
          qt \in (IF "question_topics" \in present THEN BoundedSeq(AskedNames, MaxTopics) ELSE {<<>>}),
          cr \in (IF "completed_runs" \in present THEN RunsDom ELSE {0}) :
            user_profile_dict =
                [f \in present |->
                    CASE f = "total_steps_viewed" -> sv
                      [] f = "marked_lines"       -> ml
                      [] f = "question_topics"    -> qt
                      [] f = "completed_runs"     -> cr]
    /\ total_animation_steps \in TotalDom
    /\ sc_op = "input"
    /\ sc_topic = ""
    /\ sc_line = 0
    /\ scores = NoScores
    /\ profile2 = [x \in {} |-> 0]
    /\ total2 = 0
    /\ scores2 = NoScores

\* d with key set to value (d[key] = value in Python)
SetKey(d, key, value) ==
    [f \in DOMAIN d \cup {key} |-> IF f = key THEN value ELSE d[f]]

Call(op, topic, line, d2, t2) ==
    /\ sc_op = "input"
    /\ sc_op' = op
    /\ sc_topic' = topic
    /\ sc_line' = line
    /\ scores' = calculate_skill_scores(user_profile_dict, total_animation_steps)
    /\ profile2' = d2
    /\ total2' = t2
    /\ scores2' = calculate_skill_scores(d2, t2)
    /\ UNCHANGED <<user_profile_dict, total_animation_steps>>
    /\ UNCHANGED <<recVars, apiVars>>

\* the call on the inputs as drawn
Score == Call("score", "", 0, user_profile_dict, total_animation_steps)

\* ... and on the same profile with topic appended to question_topics
ScoreAsked ==
    \E topic \in Topics :
        Call("asked", topic, 0,
             SetKey(user_profile_dict, "question_topics",
                    Append(Get(user_profile_dict, "question_topics", <<>>), topic)),
             total_animation_steps)

\* ... with line appended to marked_lines
ScoreMarked ==
    \E line \in MarkLines :
        Call("marked", "", line,
             SetKey(user_profile_dict, "marked_lines",
                    Append(Get(user_profile_dict, "marked_lines", <<>>), line)),
             total_animation_steps)

\* ... with one more completed run
ScoreCompleted ==
    Call("completed", "", 0,
         SetKey(user_profile_dict, "completed_runs",
                Get(user_profile_dict, "completed_runs", 0) + 1),
         total_animation_steps)

\* ... with total_animation_steps = 1
ScoreTotalOne == Call("total_one", "", 0, user_profile_dict, 1)

ScorerNext == Score \/ ScoreAsked \/ ScoreMarked \/ ScoreCompleted \/ ScoreTotalOne

-----------------------------------------------------------------------------
\* models.py: the tables.  A Text column that holds JSON is a record
\* [json |-> value]; json.dumps wraps, json.loads unwraps (the values written
\* here are lists of integers, lists of names and the scores dict, which JSON
\* carries unchanged).  created_at / updated_at are left out.

json_dumps(value) == [json |-> value]
json_loads(text) == text.json

\* a UserProfile row as INSERTed: every column at its default
NewUserProfile(id, sid) ==
    [id                 |-> id,
     session_id         |-> sid,
     total_steps_viewed |-> 0,
     marked_lines       |-> json_dumps(<<>>),
     questions_asked    |-> 0,
     question_topics    |-> json_dumps(<<>>),
     completed_runs     |-> 0,
     skill_scores       |-> json_dumps(<<>>)]

NewLearningRecord(id, user_id, action_type, action_data) ==
    [id |-> id, user_id |-> user_id, action_type |-> action_type,
     action_data |-> action_data]

NewChatHistory(id, user_id, question, answer, topic) ==
    [id |-> id, user_id |-> user_id, question |-> question, answer |-> answer,
     topic |-> topic]

\* mutant: session_id without unique=True
NoUniqueViolation(table, sid) == FALSE

\* session_id is unique=True: an INSERT of a second row of the same session_id
\* fails (IntegrityError)
UniqueViolation(table, sid) ==
    \E j \in 1..Len(table) : table[j].session_id = sid

\* UserProfile.query.filter_by(session_id=sid).first(): <<>> for None
QueryFirst(table, sid) ==
    LET found == {j \in 1..Len(table) : table[j].session_id = sid}
    IN  IF found = {} THEN <<>>
        ELSE <<table[CHOOSE j \in found : \A k \in found : j <= k]>>

\* the UPDATE a commit flushes: the columns whose value was changed on the
\* loaded object, written over the row as it is now
Flush(table, loaded, changed) ==
    [table EXCEPT ![loaded.id] =
        [c \in DOMAIN @ |-> IF changed[c] # loaded[c] THEN changed[c] ELSE @[c]]]

-----------------------------------------------------------------------------
\* chat_engine.py (not in the tree): match_answer, on two sample questions: one
\* that matches an entry of the knowledge base, one that matches none

Questions == {"q_complexity", "q_weather"}

match_answer(question) ==
    CASE question = "q_complexity" ->
            [answer |-> "answer_complexity", topic |-> "complexity"]
      [] OTHER -> [answer |-> "fallback", topic |-> ""]

-----------------------------------------------------------------------------
\* routes/api.py: the requests.  A request is received (its body validated),
\* runs get_or_create_user in up to three steps (the SELECT; for a new session
\* the INSERT with its commit; the reload of the expired object) and then its
\* handler body, which ends in the commit.  The steps of different requests
\* interleave; each step is one statement against the database.

SessionIds == {"anonymous", "1f0e9d8c"}

NoData == [x \in {} |-> 0]

Kinds == {"chat", "get_profile", "update_profile", "mark", "analyze"}

\* the JSON bodies drawn, per endpoint
Bodies(kind) ==
    CASE kind = "chat" -> {NoData} \cup {[question |-> q] : q \in Questions}
      [] kind = "get_profile" -> {NoData}
      [] kind = "update_profile" ->
            {NoData,
             [total_steps_viewed |-> 2],
             [marked_lines |-> <<1, 1>>, completed_runs |-> 1]}
      [] kind = "mark" ->
            {[knowledge |-> "divide_conquer"]} \cup {[line |-> l] : l \in MarkLines}
      [] kind = "analyze" -> {NoData, [total_animation_steps |-> 0]}

\* mutant: update_profile without its check of an empty body
RejectedButEmptyUpdate(kind, data) ==
    CASE kind = "chat" -> DOMAIN data = {} \/ "question" \notin DOMAIN data
      [] kind = "mark" -> DOMAIN data = {} \/ "line" \notin DOMAIN data
      [] OTHER -> FALSE

\* the 400 answers: lines 72, 139, 174
Rejected(kind, data) ==
    CASE kind = "chat" -> DOMAIN data = {} \/ "question" \notin DOMAIN data
      [] kind = "update_profile" -> DOMAIN data = {}
      [] kind = "mark" -> DOMAIN data = {} \/ "line" \notin DOMAIN data
      [] OTHER -> FALSE

NewRequest ==
    [pc |-> "new", kind |-> "", sid |-> "", data |-> NoData, user |-> <<>>, status |-> 0]

Done(r, status) ==
    [pc |-> "done", kind |-> r.kind, sid |-> r.sid, data |-> NoData, user |-> <<>>,
     status |-> status]

Requests == 1..MaxRequests

ApiIdle ==
    /\ user_profile = <<>>
    /\ learning_record = <<>>
    /\ chat_history = <<>>
    /\ req = <<>>

\* create_app: db.create_all() on an empty database; no request yet
ApiInit ==
    /\ user_profile = <<>>
    /\ learning_record = <<>>
    /\ chat_history = <<>>
    /\ req = [i \in Requests |-> NewRequest]

tables == <<user_profile, learning_record, chat_history>>

\* a request arrives; a body that fails the handler's check is answered 400
Receive(i) ==
    /\ req[i].pc = "new"
    /\ i > 1 => req[i - 1].pc # "new"
    /\ \E kind \in Kinds, sid \in SessionIds :
       \E data \in Bodies(kind) :
            req' = [req EXCEPT ![i] =
                IF Rejected(kind, data)
                THEN Done([kind |-> kind, sid |-> sid], 400)
                ELSE [pc |-> "query", kind |-> kind, sid |-> sid, data |-> data,
                      user |-> <<>>, status |-> 0]]
    /\ UNCHANGED tables
    /\ UNCHANGED <<scorerVars, recVars>>

\* get_or_create_user, lines 47-49: the SELECT
Query(i) ==
    /\ req[i].pc = "query"
    /\ LET user == QueryFirst(user_profile, req[i].sid)
       IN  req' = [req EXCEPT ![i].user = user,
                              ![i].pc = IF user = <<>> THEN "create" ELSE "body"]
    /\ UNCHANGED tables
    /\ UNCHANGED <<scorerVars, recVars>>

\* get_or_create_user, lines 50-52: the INSERT and its commit; the unique
\* session_id makes the second of two such INSERTs raise, and the request ends 500
Create(i) ==
    /\ req[i].pc = "create"
    /\ IF UniqueViolation(user_profile, req[i].sid)
       THEN /\ req' = [req EXCEPT ![i] = Done(@, 500)]
            /\ UNCHANGED user_profile
       ELSE /\ user_profile' =
                    Append(user_profile, NewUserProfile(Len(user_profile) + 1, req[i].sid))
            /\ req' = [req EXCEPT ![i].pc = "refresh",
                                  ![i].user = <<Len(user_profile) + 1>>]
    /\ UNCHANGED <<learning_record, chat_history>>
    /\ UNCHANGED <<scorerVars, recVars>>

\* the committed object is expired: its first use reloads the row by its id
Refresh(i) ==
    /\ req[i].pc = "refresh"
    /\ req' = [req EXCEPT ![i].user = <<user_profile[req[i].user[1]]>>,
                          ![i].pc = "body"]
    /\ UNCHANGED tables
    /\ UNCHANGED <<scorerVars, recVars>>

Body(i, kind) == req[i].pc = "body" /\ req[i].kind = kind

\* chat, lines 75-105
Chat(i) ==
    /\ Body(i, "chat")
    /\ LET user == req[i].user[1]
           question == req[i].data.question
           m == match_answer(question)
           asked == [user EXCEPT !.questions_asked = @ + 1]
           changed ==
               IF m.topic # ""
               THEN [asked EXCEPT !.question_topics =
                        json_dumps(Append(json_loads(user.question_topics), m.topic))]
               ELSE asked
       IN  /\ chat_history' =
                Append(chat_history,
                       NewChatHistory(Len(chat_history) + 1, user.id, question,
                                      m.answer, m.topic))
           /\ user_profile' = Flush(user_profile, user, changed)
    /\ req' = [req EXCEPT ![i] = Done(@, 200)]
    /\ UNCHANGED learning_record
    /\ UNCHANGED <<scorerVars, recVars>>

\* get_profile, lines 117-121
GetProfile(i) ==
    /\ Body(i, "get_profile")
    /\ req' = [req EXCEPT ![i] = Done(@, 200)]
    /\ UNCHANGED tables
    /\ UNCHANGED <<scorerVars, recVars>>

\* update_profile, lines 142-154: the keys of the body overwrite the columns
UpdateProfile(i) ==
    /\ Body(i, "update_profile")
    /\ LET user == req[i].user[1]
           data == req[i].data
           changed ==
               [user EXCEPT
                   !.total_steps_viewed =
                       IF "total_steps_viewed" \in DOMAIN data
                       THEN data.total_steps_viewed ELSE @,
                   !.marked_lines =
                       IF "marked_lines" \in DOMAIN data
                       THEN json_dumps(data.marked_lines) ELSE @,
                   !.completed_runs =
                       IF "completed_runs" \in DOMAIN data
                       THEN data.completed_runs ELSE @]
       IN  user_profile' = Flush(user_profile, user, changed)
    /\ req' = [req EXCEPT ![i] = Done(@, 200)]
    /\ UNCHANGED <<learning_record, chat_history>>
    /\ UNCHANGED <<scorerVars, recVars>>

\* mutant: the record is added only with a newly marked line
MarkRecordsIfNew(records, user, data) ==
    IF data.line \notin Range(json_loads(user.marked_lines))
    THEN Append(records,
                NewLearningRecord(Len(records) + 1, user.id, "mark_line", json_dumps(data)))
    ELSE records

\* save_mark, lines 180-185: the record of the mark
MarkRecords(records, user, data) ==
    Append(records,
           NewLearningRecord(Len(records) + 1, user.id, "mark_line", json_dumps(data)))

\* save_mark, lines 188-192: the line joins marked_lines unless it is in it
MarkedWith(user, line) ==
    LET marked == json_loads(user.marked_lines)
    IN  IF line \notin Range(marked)
        THEN [user EXCEPT !.marked_lines = json_dumps(Append(marked, line))]
        ELSE user

\* save_mark, lines 177-196
SaveMark(i) ==
    /\ Body(i, "mark")
    /\ LET user == req[i].user[1]
       IN  /\ learning_record' = MarkRecords(learning_record, user, req[i].data)
           /\ user_profile' = Flush(user_profile, user, MarkedWith(user, req[i].data.line))
    /\ req' = [req EXCEPT ![i] = Done(@, 200)]
    /\ UNCHANGED chat_history
    /\ UNCHANGED <<scorerVars, recVars>>

\* analyze, lines 225-231: the dict handed to the scorer
ProfileDict(user) ==
    [total_steps_viewed |-> user.total_steps_viewed,
     marked_lines       |-> json_loads(user.marked_lines),
     questions_asked    |-> user.questions_asked,
     question_topics    |-> json_loads(user.question_topics),
     completed_runs     |-> user.completed_runs]

\* analyze, lines 219-247 (the recommendations go into the answer only)
Analyze(i) ==
    /\ Body(i, "analyze")
    /\ LET user == req[i].user[1]
           total_steps == Get(req[i].data, "total_animation_steps", 50)
           result == calculate_skill_scores(ProfileDict(user), total_steps)
       IN  user_profile' =
               Flush(user_profile, user, [user EXCEPT !.skill_scores = json_dumps(result)])
    /\ req' = [req EXCEPT ![i] = Done(@, 200)]
    /\ UNCHANGED <<learning_record, chat_history>>
    /\ UNCHANGED <<scorerVars, recVars>>

Next ==
    \/ \E i \in Requests : Receive(i)
    \/ \E i \in Requests : Query(i)
    \/ \E i \in Requests : Create(i)
    \/ \E i \in Requests : Refresh(i)
    \/ \E i \in Requests : Chat(i)
    \/ \E i \in Requests : GetProfile(i)
    \/ \E i \in Requests : UpdateProfile(i)
    \/ \E i \in Requests : SaveMark(i)
    \/ \E i \in Requests : Analyze(i)

-----------------------------------------------------------------------------
\* The specifications

InitScorer == ScorerInit /\ RecIdle /\ ApiIdle

SpecScorer == InitScorer /\ [][ScorerNext]_vars

InitRecommender == ScorerIdle /\ RecInit /\ ApiIdle

Init == ScorerIdle /\ RecIdle /\ ApiInit

Spec == Init /\ [][Next]_vars

SpecRecommender == InitRecommender /\ [][RecNext]_vars

-----------------------------------------------------------------------------
\* Claims about calculate_skill_scores (checked under SpecScorer)

ScoreOf(dict, key) == dict[Lookup(dict, key)].v

WellFormedScores(dict) ==
    /\ Len(dict) = Cardinality(Topics)
    /\ Keys(dict) = Topics
    /\ \A i \in 1..Len(dict) : dict[i].v \in 0..100

AskedBefore == sc_topic \in Range(Get(user_profile_dict, "question_topics", <<>>))

\* C1: whatever the profile (keys missing or not) and the total, the result has
\* exactly the five KNOWLEDGE_MAP topics as keys and every value is in 0..100.
C1_ScoresCoverTopicsInRange ==
    sc_op \notin {"input", "idle"} =>
        WellFormedScores(scores) /\ WellFormedScores(scores2)

\* a call on a dict with a key missing whose unclamped complexity score is above 100
C1_Witness ==
    /\ sc_op = "asked"
    /\ DOMAIN user_profile_dict # ProfileKeys
    /\ RawScore(profile2, total2, "complexity") > 100
    /\ ScoreOf(scores2, "complexity") = 100

\* C2 as stated: the topic's name appearing in question_topics adds exactly 15 to
\* its score, and a further occurrence changes nothing.
C2_AskedAddsExactly15 ==
    sc_op = "asked" =>
        ScoreOf(scores2, sc_topic) =
            ScoreOf(scores, sc_topic) + (IF AskedBefore THEN 0 ELSE 15)

\* C2 amended: the first occurrence adds 15 to the score before the clamp to
\* 0..100 (so exactly 15 to the score when that was not cut off below 0), a
\* further occurrence changes nothing, except for "complexity", where every
\* occurrence adds a further 10 before the clamp.
C2_AskedAdds15BeforeClamp ==
    sc_op = "asked" =>
        LET r == RawScore(user_profile_dict, total_animation_steps, sc_topic)
            first == IF AskedBefore THEN 0 ELSE 15
            each == IF sc_topic = "complexity" THEN 10 ELSE 0
        IN  /\ ScoreOf(scores, sc_topic) = Clamp(r)
            /\ ScoreOf(scores2, sc_topic) = Clamp(r + first + each)
            /\ (sc_topic # "complexity" /\ AskedBefore) =>
                   ScoreOf(scores2, sc_topic) = ScoreOf(scores, sc_topic)
            /\ (sc_topic # "complexity" /\ ~AskedBefore /\ r >= 0) =>
                   ScoreOf(scores2, sc_topic) = ScoreOf(scores, sc_topic) + 15

\* a first occurrence of a topic whose score was cut off at 0: it gains less than 15
C2_Witness ==
    /\ sc_op = "asked"
    /\ sc_topic = "divide_conquer"
    /\ ~AskedBefore
    /\ RawScore(user_profile_dict, total_animation_steps, sc_topic) = -10
    /\ ScoreOf(scores, sc_topic) = 0
    /\ ScoreOf(scores2, sc_topic) = 5

\* C3: appending to marked_lines a line of topic T's line list changes T's score
\* from s to max(0, s - 10), also when the line was in the list already.
C3_MarkSubtracts10 ==
    sc_op = "marked" =>
        \A t \in Topics :
            sc_line \in Range(KNOWLEDGE_MAP[t]) =>
                ScoreOf(scores2, t) = Max(0, ScoreOf(scores, t) - 10)

\* a line of divide_conquer marked a second time, the score dropping by 10 again
C3_Witness ==
    /\ sc_op = "marked"
    /\ sc_line = 1
    /\ sc_line \in Range(Get(user_profile_dict, "marked_lines", <<>>))
    /\ ScoreOf(scores, "divide_conquer") = 30
    /\ ScoreOf(scores2, "divide_conquer") = 20

\* C4: one more completed run never lowers a score, and from 2 runs on it
\* changes nothing (the bonus is capped at 30).
C4_CompletedRunsMonotoneCapped ==
    sc_op = "completed" =>
        /\ \A t \in Topics : ScoreOf(scores2, t) >= ScoreOf(scores, t)
        /\ Get(user_profile_dict, "completed_runs", 0) >= 2 => scores2 = scores
        /\ Get(user_profile_dict, "completed_runs", 0) >= 2 =>
               complete_bonus(profile2) = 30

\* the third run of a profile with two: the scores, all positive, stay
C4_Witness ==
    /\ sc_op = "completed"
    /\ Get(user_profile_dict, "completed_runs", 0) = 2
    /\ profile2["completed_runs"] = 3
    /\ \A t \in Topics : ScoreOf(scores, t) > 0
    /\ scores2 = scores

\* C5: a total_animation_steps of 0 or below gives the result of total 1.
C5_NonPositiveTotalIsOne ==
    (sc_op = "total_one" /\ total_animation_steps <= 0) => scores2 = scores

\* steps were viewed and the total is negative
C5_Witness ==
    /\ sc_op = "total_one"
    /\ total_animation_steps < 0
    /\ Get(user_profile_dict, "total_steps_viewed", 0) = 1
    /\ ScoreOf(scores, "divide_conquer") = 40

-----------------------------------------------------------------------------
\* Claims about generate_recommendations (checked under SpecRecommender)

ItemOf(rec) == [k |-> rec.knowledge, v |-> rec.score]

RecItems == {ItemOf(recommendations[i]) : i \in 1..Len(recommendations)}

\* place of a name in KNOWLEDGE_MAP (after all of them if it is not a key)
KnowledgeIndex(name) ==
    IF name \in Topics
    THEN CHOOSE i \in 1..Len(KnowledgeOrder) : KnowledgeOrder[i] = name
    ELSE Len(KnowledgeOrder) + 1

\* a comes before b: lower score, or the same score and earlier in KNOWLEDGE_MAP
TableBefore(a, b) ==
    a.v < b.v \/ (a.v = b.v /\ KnowledgeIndex(a.k) < KnowledgeIndex(b.k))

\* a comes before b: lower score, or the same score and earlier in the dict passed
DictBefore(a, b) ==
    a.v < b.v \/ (a.v = b.v /\ Lookup(skill_scores, a.k) < Lookup(skill_scores, b.k))

\* the list is the first `count` items of skill_scores, ordered by score and,
\* within a score, by KNOWLEDGE_MAP (byTable) or by the dict passed
FirstInOrder(count, byTable) ==
    LET Before(a, b) == IF byTable THEN TableBefore(a, b) ELSE DictBefore(a, b)
    IN  /\ Len(recommendations) = count
        /\ RecItems \subseteq Range(skill_scores)
        /\ \A i, j \in 1..Len(recommendations) :
               i < j => Before(ItemOf(recommendations[i]), ItemOf(recommendations[j]))
        /\ \A item \in Range(skill_scores) \ RecItems :
               \A r \in RecItems : ~Before(item, r)

\* C6 as stated: the first min(limit, n) topics ascending by score, equal scores
\* in KNOWLEDGE_MAP order.
C6_TiesInTableOrder ==
    (rc_op = "called" /\ top_n >= 0) =>
        FirstInOrder(Min(top_n, Len(skill_scores)), TRUE)

\* C6 amended: the first min(limit, n) topics ascending by score, equal scores in
\* the order of the items of the dict passed; nothing for an empty dict; a
\* negative limit -k leaves out the last k topics instead.
C6_TiesInDictOrder ==
    rc_op = "called" =>
        /\ FirstInOrder(IF top_n >= 0 THEN Min(top_n, Len(skill_scores))
                        ELSE Max(0, Len(skill_scores) + top_n),
                        FALSE)
        /\ skill_scores = <<>> => recommendations = <<>>

\* two topics of the same score passed against the KNOWLEDGE_MAP order, a third
\* topic cut off by the limit
C6_Witness ==
    /\ rc_op = "called"
    /\ top_n = 2
    /\ Len(skill_scores) = 3
    /\ skill_scores[1] = [k |-> "pivot_selection", v |-> 40]
    /\ skill_scores[2] = [k |-> "divide_conquer", v |-> 40]
    /\ Len(recommendations) = 2
    /\ recommendations[1].knowledge = "pivot_selection"
    /\ recommendations[2].knowledge = "divide_conquer"

\* C7: every record carries the tier of its score and no other: 70 and above
\* proficient/easy, 40..69 needs_reinforcement/medium, below 40
\* priority_focus/hard.
C7_TierByScore ==
    rc_op = "called" =>
        \A i \in 1..Len(recommendations) :
            LET r == recommendations[i]
            IN  /\ r.score >= 70 =>
                       r.tag = "proficient" /\ r.tag_class = "easy"
                /\ (r.score >= 40 /\ r.score < 70) =>
                       r.tag = "needs_reinforcement" /\ r.tag_class = "medium"
                /\ r.score < 40 =>
                       r.tag = "priority_focus" /\ r.tag_class = "hard"

\* a list with the scores 39, 69 and 70, one tier each
C7_Witness ==
    /\ rc_op = "called"
    /\ Len(recommendations) = 3
    /\ recommendations[1].score = 39 /\ recommendations[1].tag = "priority_focus"
    /\ recommendations[2].score = 69 /\ recommendations[2].tag = "needs_reinforcement"
    /\ recommendations[3].score = 70 /\ recommendations[3].tag = "proficient"

-----------------------------------------------------------------------------
\* Claims about the requests (checked under Spec)

NoDuplicates(s) == \A i, j \in 1..Len(s) : i # j => s[i] # s[j]

\* C8: no line number occurs twice in a profile's marked_lines, whatever mark
\* and profile-update requests were served.
C8_MarkedLinesDistinct ==
    \A j \in 1..Len(user_profile) :
        NoDuplicates(json_loads(user_profile[j].marked_lines))

IsPrefix(s, t) == Len(s) <= Len(t) /\ SubSeq(t, 1, Len(s)) = s

\* request i is a mark request answered 200 in this step
MarkAccepted(i) ==
    /\ req[i].pc = "body"
    /\ req[i].kind = "mark"
    /\ req'[i].pc = "done"
    /\ req'[i].status = 200

\* C9: no step changes or removes a row of learning_record; a step adds a row
\* exactly when it answers a mark request 200, and then it adds one row, of
\* action_type mark_line, holding the request's body and owned by the profile of
\* the request's session, whether or not the line was marked before.
C9_EventsAppendOnly ==
    [][/\ IsPrefix(learning_record, learning_record')
       /\ Len(learning_record') > Len(learning_record) =>
              \E i \in Requests : MarkAccepted(i)
       /\ \A i \in Requests :
              MarkAccepted(i) =>
                  /\ Len(learning_record') = Len(learning_record) + 1
                  /\ LET record == learning_record'[Len(learning_record')]
                     IN  /\ record.action_type = "mark_line"
                         /\ record.action_data = json_dumps(req[i].data)
                         /\ \E j \in 1..Len(user_profile') :
                                /\ user_profile'[j].id = record.user_id
                                /\ user_profile'[j].session_id = req[i].sid
      ]_vars

\* the same line marked twice by one session: two records, the line once in
\* marked_lines
C9_Witness ==
    /\ Len(learning_record) = 2
    /\ learning_record[1].action_data = json_dumps([line |-> 1])
    /\ learning_record[2].action_data = json_dumps([line |-> 1])
    /\ learning_record[1].user_id = learning_record[2].user_id
    /\ Len(user_profile) = 1
    /\ json_loads(user_profile[1].marked_lines) = <<1>>

\* C10: no two profiles have the same session_id; a session has a profile only
\* once a request of it has passed the INSERT of get_or_create_user, and every
\* request past get_or_create_user has one.
C10_OneProfilePerSession ==
    /\ \A j, k \in 1..Len(user_profile) :
           j # k => user_profile[j].session_id # user_profile[k].session_id
    /\ \A j \in 1..Len(user_profile) :
           \E i \in Requests :
               /\ req[i].sid = user_profile[j].session_id
               /\ req[i].pc \in {"refresh", "body", "done"}
    /\ \A i \in Requests :
           (req[i].pc \in {"refresh", "body"} \/ (req[i].pc = "done" /\ req[i].status = 200)) =>
               QueryFirst(user_profile, req[i].sid) # <<>>

\* two first requests of one session both found no profile: one created it, the
\* other's INSERT was refused
C10_Witness ==
    \E i, j \in Requests :
        /\ i # j
        /\ req[i].sid = req[j].sid
        /\ req[i].pc = "done" /\ req[i].status = 200
        /\ req[j].pc = "done" /\ req[j].status = 500
        /\ Cardinality({k \in 1..Len(user_profile) :
                            user_profile[k].session_id = req[i].sid}) = 1

\* the chat_history rows owned by a profile
TurnsOf(user_id) == {k \in 1..Len(chat_history) : chat_history[k].user_id = user_id}

\* C11: for every profile, questions_asked is the number of its chat_history
\* rows and question_topics has one entry per row with a non-empty topic,
\* however the chat requests of the session interleave.
C11_CountsMatchChatTurns ==
    \A j \in 1..Len(user_profile) :
        /\ user_profile[j].questions_asked = Cardinality(TurnsOf(user_profile[j].id))
        /\ Len(json_loads(user_profile[j].question_topics)) =
               Cardinality({k \in TurnsOf(user_profile[j].id) : chat_history[k].topic # ""})

\* request i is received in this step
Received(i) == req[i].pc = "new" /\ req'[i].pc # "new"

\* C12: a chat request without question, a mark request without line and a
\* profile update with an empty body are answered 400 on arrival, in a step that
\* leaves the three tables as they are; nothing else is answered 400, and a
\* request that was answered takes no further step.
C12_RejectedChangesNothing ==
    [][\A i \in Requests :
          /\ Received(i) =>
                /\ req'[i].kind = "chat" =>
                       (req'[i].status = 400 <=> "question" \notin DOMAIN req'[i].data)
                /\ req'[i].kind = "mark" =>
                       (req'[i].status = 400 <=> "line" \notin DOMAIN req'[i].data)
                /\ req'[i].kind = "update_profile" =>
                       (req'[i].status = 400 <=> DOMAIN req'[i].data = {})
                /\ req'[i].status = 400 =>
                       /\ req'[i].pc = "done"
                       /\ req'[i].kind \in {"chat", "mark", "update_profile"}
                       /\ tables' = tables
          /\ (req'[i].status = 400 /\ req[i].status # 400) => Received(i)
          /\ req[i].pc = "done" => req'[i] = req[i]
      ]_vars

\* a session's mark request was served, then another session's mark request
\* without line was answered 400: no profile for that session, no second record
C12_Witness ==
    \E i, j \in Requests :
        /\ req[i].pc = "done" /\ req[i].kind = "mark" /\ req[i].status = 200
        /\ req[j].pc = "done" /\ req[j].kind = "mark" /\ req[j].status = 400
        /\ req[i].sid # req[j].sid
        /\ QueryFirst(user_profile, req[j].sid) = <<>>
        /\ Len(user_profile) = 1
        /\ Len(learning_record) = 1
        /\ chat_history = <<>>

====
